---- MODULE Spec2Model ----
(***************************************************************************)
(* gargs 0.3.2 (src/main.go): lines of standard input are batched, each    *)
(* batch is rendered through a command template, the commands are handed   *)
(* to process.Runner over an unbuffered channel, and run() drains the      *)
(* results, aggregates the exit status and cancels on the first failure.   *)
(*                                                                         *)
(* Text is a sequence of one-character strings; "NL" is '\n', "CR" '\r'.   *)
(* A compiled template is a sequence of elements [k, c, n]: a literal      *)
(* character c, {{index .Lines 0}} or {{index .Xs n}}.                     *)
(***************************************************************************)
EXTENDS Integers, Sequences, FiniteSets, TLC

\* ------------------------------------------------------------- bounds
MaxLines == 3          \* input lines per run
MaxNlines == 3         \* largest -n tried
MaxGenLines == 4       \* input lines per run of the generator on its own

\* exit statuses a command can report, and the -p values tried
Statuses == {0, 1, 2}
ProcsSet == {1, 2}

\* exit status of a Go program that dies of a panic / of log.Fatal / of
\* go-arg's Fail (os.Exit(-1), seen by the caller as 255)
PanicStatus == 2
FatalStatus == 1
UsageStatus == 255

\* contents of input lines, line terminators, separators and patterns tried.
\* A separator is a literal string (a regular expression without operators).
\* The patterns are ones text/template parses: none holds "{{" once rewritten.
LineSet == { <<>>, <<"a">>, <<"b", ",", "c">> }
Terminators == { <<"NL">>, <<"CR", "NL">> }
Seps == { <<>>, <<",">>, <<"b">> }
Patterns ==
  { <<"e">>,
    <<"{", "}">>,
    <<"{", "0", "}", "-", "{", "1", "}">>,
    <<"{", "1", "}", "{", "}">> }
PipePatterns == { <<"{", "}">>, <<"{", "1", "}", "{", "}">> }

VARIABLES
  args,        \* Params: Command, Nlines, Sep, Verbose, ContinueOnError, DryRun, Procs
  src,         \* the lines of the input (never changes)
  stdin,       \* the bytes of the input (never changes)
  rdr,         \* bytes of standard input not yet read
  lines,       \* genCommands: the line buffer
  buf,         \* genCommands: bytes.Buffer
  genpc,       \* genCommands goroutine: idle (not launched), read, send97, l107,
               \* send110, send115, l117, closed
  ch,          \* the command a send on ch is offering (<<>> when none)
  stdout,      \* bytes written to os.Stdout
  stdoutw,     \* bytes held by run's bufio.Writer
  stderr,      \* bytes written to os.Stderr
  cancel,      \* the cancel channel: open / closed
  closes,      \* close(cancel) calls executed
  workers,     \* process.Runner: each worker's state
  mainpc,      \* main: start; run: loop, got, return
  p,           \* run: the result taken in this iteration (<<>> when none)
  ExitCode,    \* the package variable
  proc,        \* the process: running, exited, panicked, fatal, usage
  exitStatus,  \* the status the process ended with
  rendered,    \* history: every template execution, [Lines, Xs, out, cmd]
  emitted,     \* history: what handleCommand did, in order, [to, cmd] with to
               \* one of stderr, stdout, ch
  handed,      \* history: commands received by the engine from ch
  reported,    \* history: statuses of finished commands, in completion order
  taken        \* history: results run took from the engine, in order

vars == <<args, src, stdin, rdr, lines, buf, genpc, ch, stdout, stdoutw, stderr, cancel,
          closes, workers, mainpc, p, ExitCode, proc, exitStatus, rendered,
          emitted, handed, reported, taken>>

\* ------------------------------------------------------------ helpers
RECURSIVE Flatten(_)
Flatten(ss) == IF ss = <<>> THEN <<>> ELSE Head(ss) \o Flatten(Tail(ss))

SeqsUpTo(S, n) == UNION { [1..k -> S] : k \in 0..n }

Digits == {"0", "1", "2", "3", "4", "5", "6", "7", "8", "9"}
DigitVal(c) ==
  CASE c = "0" -> 0 [] c = "1" -> 1 [] c = "2" -> 2 [] c = "3" -> 3 [] c = "4" -> 4
    [] c = "5" -> 5 [] c = "6" -> 6 [] c = "7" -> 7 [] c = "8" -> 8 [] c = "9" -> 9

Lit(c) == [k |-> "lit", c |-> c, n |-> 0]
LineRef == [k |-> "line", c |-> "", n |-> 0]
XsRef(n) == [k |-> "xs", c |-> "", n |-> n]

\* ---------------------------------------------------- makeCommandTmpl
\* strings.Replace(cmd, "{}", "{{index .Lines 0}}", -1)
RECURSIVE ReplaceBraces(_)
ReplaceBraces(s) ==
  IF s = <<>> THEN <<>>
  ELSE IF Len(s) >= 2 /\ s[1] = "{" /\ s[2] = "}"
       THEN <<LineRef>> \o ReplaceBraces(SubSeq(s, 3, Len(s)))
       ELSE <<Lit(s[1])>> \o ReplaceBraces(Tail(s))

IsDigit(e) == e.k = "lit" /\ e.c \in Digits

\* the first index >= j of v that holds no digit
RECURSIVE DigitsEnd(_, _)
DigitsEnd(v, j) ==
  IF j <= Len(v) /\ IsDigit(v[j]) THEN DigitsEnd(v, j + 1) ELSE j

RECURSIVE Number(_, _, _)
Number(v, i, j) ==
  IF i > j THEN 0 ELSE Number(v, i, j - 1) * 10 + DigitVal(v[j].c)

\* re.ReplaceAllStringFunc(v, ...) with re = ({\d+})
RECURSIVE ReplaceIndexed(_)
ReplaceIndexed(v) ==
  IF v = <<>> THEN <<>>
  ELSE LET e == DigitsEnd(v, 2)
       IN IF /\ v[1] = Lit("{")
             /\ e > 2
             /\ e <= Len(v)
             /\ v[e] = Lit("}")
          THEN <<XsRef(Number(v, 2, e - 1))>> \o ReplaceIndexed(SubSeq(v, e + 1, Len(v)))
          ELSE <<v[1]>> \o ReplaceIndexed(Tail(v))

makeCommandTmpl(cmd) == ReplaceIndexed(ReplaceBraces(cmd))

\* tmpl.Execute: index fails when the sequence is too short
CanExecute(tmpl, Lines, Xs) ==
  \A i \in 1..Len(tmpl) :
    /\ tmpl[i].k = "line" => Len(Lines) >= 1
    /\ tmpl[i].k = "xs" => tmpl[i].n < Len(Xs)

ExecElem(e, Lines, Xs) ==
  CASE e.k = "lit" -> <<e.c>>
    [] e.k = "line" -> Lines[1]
    [] e.k = "xs" -> Xs[e.n + 1]

Execute(tmpl, Lines, Xs) ==
  Flatten([i \in 1..Len(tmpl) |-> ExecElem(tmpl[i], Lines, Xs)])

\* ------------------------------------------------------ reading lines
\* rdr.ReadString('\n')
ReadString(r) ==
  IF \E i \in 1..Len(r) : r[i] = "NL"
  THEN LET i == CHOOSE i \in 1..Len(r) :
                  r[i] = "NL" /\ \A j \in 1..(i - 1) : r[j] # "NL"
       IN [line |-> SubSeq(r, 1, i), err |-> "nil", rest |-> SubSeq(r, i + 1, Len(r))]
  ELSE [line |-> r, err |-> "EOF", rest |-> <<>>]

\* re.ReplaceAllString(line, "") with re = \r?\n
RECURSIVE StripNewline(_)
StripNewline(s) ==
  IF s = <<>> THEN <<>>
  ELSE IF Len(s) >= 2 /\ s[1] = "CR" /\ s[2] = "NL" THEN StripNewline(SubSeq(s, 3, Len(s)))
  ELSE IF s[1] = "NL" THEN StripNewline(Tail(s))
  ELSE <<s[1]>> \o StripNewline(Tail(s))

\* resep.FindAllStringIndex for a literal separator: [b, e) byte offsets
RECURSIVE FindAll(_, _, _)
FindAll(s, sep, i) ==
  IF i + Len(sep) - 1 > Len(s) THEN <<>>
  ELSE IF SubSeq(s, i, i + Len(sep) - 1) = sep
       THEN <<[b |-> i - 1, e |-> i - 1 + Len(sep)]>> \o FindAll(s, sep, i + Len(sep))
       ELSE FindAll(s, sep, i + 1)

RECURSIVE SplitLoop(_, _, _, _, _)
SplitLoop(s, ms, beg, end, acc) ==
  IF ms = <<>>
  THEN IF end # Len(s) THEN Append(acc, SubSeq(s, beg + 1, Len(s))) ELSE acc
  ELSE LET m == Head(ms)
       IN SplitLoop(s, Tail(ms), m.e, m.b,
                    IF m.e # 0 THEN Append(acc, SubSeq(s, beg + 1, m.b)) ELSE acc)

\* resep.Split(line, -1)
Split(s, sep) ==
  IF Len(s) = 0 THEN << <<>> >> ELSE SplitLoop(s, FindAll(s, sep, 1), 0, 0, <<>>)

\* ------------------------------------------------------- genCommands
\* tmpl := makeCommandTmpl(args.Command), once per run
Tmpl == makeCommandTmpl(args.Command)

\* what the generator goroutine reads and writes, as one record
Gen ==
  [rdr |-> rdr, lines |-> lines, buf |-> buf, genpc |-> genpc, ch |-> ch,
   stdout |-> stdout, stderr |-> stderr, rendered |-> rendered,
   emitted |-> emitted,
   proc |-> proc, exitStatus |-> exitStatus]

SetGen(g) ==
  /\ rdr' = g.rdr
  /\ lines' = g.lines
  /\ buf' = g.buf
  /\ genpc' = g.genpc
  /\ ch' = g.ch
  /\ stdout' = g.stdout
  /\ stderr' = g.stderr
  /\ rendered' = g.rendered
  /\ emitted' = g.emitted
  /\ proc' = g.proc
  /\ exitStatus' = g.exitStatus

\* a variant of check that ends the generator, not the process
checkClose(g) == [g EXCEPT !.genpc = "closed"]

\* check(e) with e # nil: log.Fatal ends the process
check(g) == [g EXCEPT !.proc = "fatal", !.exitStatus = FatalStatus]

\* a variant of handleCommand whose dry-run branch does not return
handleCommandNoReturn(g, cmd, blocked, cont) ==
  LET g1 == IF args.Verbose
            THEN [g EXCEPT !.stderr = @ \o <<"command: ">> \o cmd \o <<"NL">>,
                           !.emitted = Append(@, [to |-> "stderr", cmd |-> cmd])]
            ELSE g
      g2 == IF args.DryRun
            THEN [g1 EXCEPT !.stdout = @ \o cmd \o <<"NL">>,
                            !.emitted = Append(@, [to |-> "stdout", cmd |-> cmd])]
            ELSE g1
  IN [g2 EXCEPT !.ch = <<cmd>>, !.genpc = blocked,
                !.emitted = Append(@, [to |-> "ch", cmd |-> cmd])]

\* a variant of handleCommand that writes the verbose line last
handleCommandVerboseLast(g, cmd, blocked, cont) ==
  LET g1 == IF args.DryRun
            THEN [g EXCEPT !.stdout = @ \o cmd \o <<"NL">>, !.genpc = cont,
                           !.emitted = Append(@, [to |-> "stdout", cmd |-> cmd])]
            ELSE [g EXCEPT !.ch = <<cmd>>, !.genpc = blocked,
                           !.emitted = Append(@, [to |-> "ch", cmd |-> cmd])]
  IN IF args.Verbose
     THEN [g1 EXCEPT !.stderr = @ \o <<"command: ">> \o cmd \o <<"NL">>,
                     !.emitted = Append(@, [to |-> "stderr", cmd |-> cmd])]
     ELSE g1

\* a variant of handleCommand whose send does not wait for the receiver
handleCommandNoWait(g, cmd, blocked, cont) ==
  LET g1 == IF args.Verbose
            THEN [g EXCEPT !.stderr = @ \o <<"command: ">> \o cmd \o <<"NL">>,
                           !.emitted = Append(@, [to |-> "stderr", cmd |-> cmd])]
            ELSE g
  IN IF args.DryRun
     THEN [g1 EXCEPT !.stdout = @ \o cmd \o <<"NL">>, !.genpc = cont,
                     !.emitted = Append(@, [to |-> "stdout", cmd |-> cmd])]
     ELSE [g1 EXCEPT !.ch = <<cmd>>, !.genpc = cont,
                     !.emitted = Append(@, [to |-> "ch", cmd |-> cmd])]

\* handleCommand(args, cmd, ch); blocked is the position while the send waits,
\* cont the position after a dry-run return
handleCommand(g, cmd, blocked, cont) ==
  LET g1 == IF args.Verbose
            THEN [g EXCEPT !.stderr = @ \o <<"command: ">> \o cmd \o <<"NL">>,
                           !.emitted = Append(@, [to |-> "stderr", cmd |-> cmd])]
            ELSE g
  IN IF args.DryRun
     THEN [g1 EXCEPT !.stdout = @ \o cmd \o <<"NL">>, !.genpc = cont,
                     !.emitted = Append(@, [to |-> "stdout", cmd |-> cmd])]
     ELSE [g1 EXCEPT !.ch = <<cmd>>, !.genpc = blocked,
                     !.emitted = Append(@, [to |-> "ch", cmd |-> cmd])]

\* tmpl.Execute(&buf, &tmplArgs{Lines: L, Xs: X}): appends to buf
Render(g, L, X) ==
  LET out == Execute(Tmpl, L, X)
  IN [g EXCEPT !.buf = @ \o out,
               !.rendered = Append(@, [Lines |-> L, Xs |-> X, out |-> out,
                                       cmd |-> g.buf \o out])]

\* a variant of Line107 that does not clear the line buffer
Line107KeepLines(g) ==
  IF Len(g.lines) = args.Nlines
  THEN IF ~CanExecute(Tmpl, g.lines, g.lines) THEN check(g)
       ELSE LET g1 == Render(g, g.lines, g.lines)
            IN handleCommand(g1, g1.buf, "send110", "read")
  ELSE [g EXCEPT !.genpc = "read"]

\* lines 107-111: a full batch
Line107(g) ==
  IF Len(g.lines) = args.Nlines
  THEN IF ~CanExecute(Tmpl, g.lines, g.lines) THEN check(g)
       ELSE LET g1 == Render(g, g.lines, g.lines)
            IN handleCommand([g1 EXCEPT !.lines = <<>>], g1.buf, "send110", "read")
  ELSE [g EXCEPT !.genpc = "read"]

\* line 117: close(ch)
CloseCh(g) == [g EXCEPT !.genpc = "closed"]

\* a variant of Line113 that drops the trailing partial batch
Line113NoTrailing(g) == CloseCh(g)

\* lines 113-117: the trailing partial batch, then close
Line113(g) ==
  IF Len(g.lines) > 0
  THEN IF ~CanExecute(Tmpl, g.lines, g.lines) THEN check(g)
       ELSE LET g1 == Render(g, g.lines, g.lines)
                g2 == handleCommand(g1, g1.buf, "send115", "l117")
            IN IF g2.genpc = "l117" THEN CloseCh(g2) ELSE g2
  ELSE CloseCh(g)

\* a variant of SplitLine that passes the tokens as Lines too
SplitLineTokensAsLines(g, line) ==
  LET toks == Split(line, args.Sep)
  IN IF ~CanExecute(Tmpl, toks, toks) THEN check(g)
     ELSE LET g1 == Render(g, toks, toks)
              g2 == handleCommand(g1, g1.buf, "send97", "l107")
          IN IF g2.genpc = "l107" THEN Line107(g2) ELSE g2

\* lines 94-97: separator mode, one command per line
SplitLine(g, line) ==
  LET toks == Split(line, args.Sep)
  IN IF ~CanExecute(Tmpl, <<line>>, toks) THEN check(g)
     ELSE LET g1 == Render(g, <<line>>, toks)
              g2 == handleCommand(g1, g1.buf, "send97", "l107")
          IN IF g2.genpc = "l107" THEN Line107(g2) ELSE g2

\* a variant of Iteration that puts the new line at the front of the buffer
IterationPrepend(g) ==
  LET r == ReadString(g.rdr)
      g0 == [g EXCEPT !.buf = <<>>, !.rdr = r.rest]
  IN IF r.err = "nil" \/ (r.err = "EOF" /\ Len(r.line) > 0)
     THEN LET line == StripNewline(r.line)
          IN IF args.Sep # <<>>
             THEN SplitLine(g0, line)
             ELSE Line107([g0 EXCEPT !.lines = <<line>> \o @])
     ELSE Line113(g0)

\* a variant of Iteration that takes only lines that end in a newline
IterationDropPartial(g) ==
  LET r == ReadString(g.rdr)
      g0 == [g EXCEPT !.buf = <<>>, !.rdr = r.rest]
  IN IF r.err = "nil"
     THEN LET line == StripNewline(r.line)
          IN IF args.Sep # <<>>
             THEN SplitLine(g0, line)
             ELSE Line107([g0 EXCEPT !.lines = Append(@, line)])
     ELSE Line113(g0)

\* lines 90-111: one turn of the loop, up to the next send that has to wait
Iteration(g) ==
  LET r == ReadString(g.rdr)
      g0 == [g EXCEPT !.buf = <<>>, !.rdr = r.rest]
  IN IF r.err = "nil" \/ (r.err = "EOF" /\ Len(r.line) > 0)
     THEN LET line == StripNewline(r.line)
          IN IF args.Sep # <<>>
             THEN SplitLine(g0, line)
             ELSE Line107([g0 EXCEPT !.lines = Append(@, line)])
     ELSE Line113(g0)

mainVars == <<stdoutw, cancel, closes, mainpc, p, ExitCode, taken>>
engineVars == <<workers, handed, reported>>

genCommandsLoop ==
  /\ proc = "running"
  /\ genpc = "read"
  /\ SetGen(Iteration(Gen))
  /\ UNCHANGED <<args, src, stdin, mainVars, engineVars>>

genCommandsAfterSend ==
  /\ proc = "running"
  /\ genpc = "l107"
  /\ SetGen(Line107(Gen))
  /\ UNCHANGED <<args, src, stdin, mainVars, engineVars>>

genCommandsClose ==
  /\ proc = "running"
  /\ genpc = "l117"
  /\ SetGen(CloseCh(Gen))
  /\ UNCHANGED <<args, src, stdin, mainVars, engineVars>>

\* ---------------------------------------------------- process.Runner
\* The engine: args.Procs workers take commands from ch while cancel is open,
\* run them, and offer their results to run's range loop in completion order.
Idle == [st |-> "idle", cmd |-> <<>>, status |-> 0]
Workers == 1..args.Procs

\* the captured standard output of a command
Output(cmd) == cmd \o <<"NL">>

\* where the generator goes on once its send has been received
AfterSend(pc) ==
  CASE pc = "send97" -> "l107"
    [] pc = "send110" -> "read"
    [] pc = "send115" -> "l117"

\* the result stream is closed: every worker has returned
StreamClosed == \A w \in Workers : workers[w].st = "stopped"

RunnerAccept(w) ==
  /\ proc = "running"
  /\ cancel = "open"
  /\ ch # <<>>
  /\ workers[w].st = "idle"
  /\ \A v \in Workers : v < w => workers[v].st # "idle"
  /\ workers' = [workers EXCEPT ![w] = [st |-> "running", cmd |-> ch[1], status |-> 0]]
  /\ handed' = Append(handed, ch[1])
  /\ ch' = <<>>
  /\ genpc' = AfterSend(genpc)
  /\ UNCHANGED <<args, src, stdin, rdr, lines, buf, stdout, stderr, rendered, emitted, proc,
                 exitStatus, reported, mainVars>>

RunnerFinish(w, s) ==
  /\ proc = "running"
  /\ workers[w].st = "running"
  /\ workers' = [workers EXCEPT ![w].st = "ready", ![w].status = s]
  /\ reported' = Append(reported, s)
  /\ UNCHANGED <<args, src, stdin, rdr, lines, buf, genpc, ch, stdout, stderr, rendered, emitted,
                 proc, exitStatus, handed, mainVars>>

RunnerStop(w) ==
  /\ proc = "running"
  /\ \/ workers[w].st = "idle" /\ (genpc = "closed" \/ cancel = "closed")
     \/ workers[w].st = "ready" /\ cancel = "closed"
  /\ workers' = [workers EXCEPT ![w] = [Idle EXCEPT !.st = "stopped"]]
  /\ UNCHANGED <<args, src, stdin, rdr, lines, buf, genpc, ch, stdout, stderr, rendered, emitted,
                 proc, exitStatus, handed, reported, mainVars>>

\* --------------------------------------------------------- main, run
\* a variant of max that keeps the later value
maxLast(a, b) == b

max(a, b) == IF a > b THEN a ELSE b

\* a variant of BadConfig that lets every configuration through
BadConfigNever == FALSE

\* line 47: -s and -n > 1 together
BadConfig == args.Sep # <<>> /\ args.Nlines > 1

\* variants of StopOnFailure: never stopping, and stopping whatever -c says
StopOnFailureNever(ex) == FALSE
StopOnFailureAlways(ex) == ex # 0

\* lines 141 and 143: the result ends the loop
StopOnFailure(ex) == ex # 0 /\ ~args.ContinueOnError

\* a variant of Copy that writes the result ahead of what was written before
CopyPrepend(w, r) == r.out \o w

\* line 148: io.Copy(stdout, p)
Copy(w, r) == w \o r.out

\* main up to the start of run's loop: validation (lines 47-49), then
\* genCommands launches the generator (line 132)
mainStart ==
  /\ proc = "running"
  /\ mainpc = "start"
  /\ IF BadConfig
     THEN /\ proc' = "usage"
          /\ exitStatus' = UsageStatus
          /\ UNCHANGED <<mainpc, genpc>>
     ELSE /\ mainpc' = "loop"
          /\ genpc' = "read"
          /\ UNCHANGED <<proc, exitStatus>>
  /\ UNCHANGED <<args, src, stdin, rdr, lines, buf, ch, stdout, stdoutw, stderr, cancel,
                 closes, p, ExitCode, rendered, emitted, taken, engineVars>>

\* line 140: the range loop receives a result
runTake(w) ==
  /\ proc = "running"
  /\ mainpc = "loop"
  /\ workers[w].st = "ready"
  /\ LET r == [cmd |-> workers[w].cmd, status |-> workers[w].status,
               out |-> Output(workers[w].cmd)]
     IN /\ p' = <<r>>
        /\ taken' = Append(taken, r)
  /\ workers' = [workers EXCEPT ![w] = Idle]
  /\ mainpc' = "got"
  /\ UNCHANGED <<args, src, stdin, rdr, lines, buf, genpc, ch, stdout, stdoutw, stderr,
                 cancel, closes, ExitCode, proc, exitStatus, rendered, emitted, handed,
                 reported>>

\* lines 141-148: the body of the loop for the result in p
runBody ==
  /\ proc = "running"
  /\ mainpc = "got"
  /\ LET ex == p[1].status
     IN /\ ExitCode' = IF ex # 0 THEN max(ExitCode, ex) ELSE ExitCode
        /\ IF StopOnFailure(ex)
           THEN /\ cancel' = "closed"
                /\ closes' = closes + 1
                /\ mainpc' = "return"
                /\ UNCHANGED stdoutw
           ELSE /\ stdoutw' = Copy(stdoutw, p[1])
                /\ mainpc' = "loop"
                /\ UNCHANGED <<cancel, closes>>
  /\ p' = <<>>
  /\ UNCHANGED <<args, src, stdin, rdr, lines, buf, genpc, ch, stdout, stderr, proc,
                 exitStatus, rendered, emitted, taken, engineVars>>

\* line 140: the result stream is closed, the loop ends
runEnd ==
  /\ proc = "running"
  /\ mainpc = "loop"
  /\ StreamClosed
  /\ mainpc' = "return"
  /\ UNCHANGED <<args, src, stdin, rdr, lines, buf, genpc, ch, stdout, stdoutw, stderr,
                 cancel, closes, p, ExitCode, proc, exitStatus, rendered, emitted, taken,
                 engineVars>>

\* run returns: the deferred close(cancel) (line 138), which panics on a closed
\* channel, then the deferred stdout.Flush() (line 135), then os.Exit (line 56)
runReturn ==
  /\ proc = "running"
  /\ mainpc = "return"
  /\ closes' = closes + 1
  /\ cancel' = "closed"
  /\ stdout' = stdout \o stdoutw
  /\ stdoutw' = <<>>
  /\ IF cancel = "closed"
     THEN proc' = "panicked" /\ exitStatus' = PanicStatus
     ELSE proc' = "exited" /\ exitStatus' = ExitCode
  /\ UNCHANGED <<args, src, stdin, rdr, lines, buf, genpc, ch, stderr, mainpc, p,
                 ExitCode, rendered, emitted, taken, engineVars>>

\* ------------------------------------------------------ specification
\* standard input: the lines of ls, each followed by term, the last one
\* only when terminated
RECURSIVE Input(_, _, _)
Input(ls, term, terminated) ==
  IF ls = <<>> THEN <<>>
  ELSE IF Len(ls) = 1 THEN Head(ls) \o (IF terminated THEN term ELSE <<>>)
  ELSE Head(ls) \o term \o Input(Tail(ls), term, terminated)

Params ==
  [Command : Patterns, Nlines : 0..MaxNlines, Sep : Seps, Verbose : BOOLEAN,
   ContinueOnError : BOOLEAN, DryRun : BOOLEAN, Procs : ProcsSet]

InitRest ==
  /\ lines = <<>>
  /\ buf = <<>>
  /\ genpc = "idle"
  /\ ch = <<>>
  /\ stdout = <<>>
  /\ stdoutw = <<>>
  /\ stderr = <<>>
  /\ cancel = "open"
  /\ closes = 0
  /\ workers = [w \in Workers |-> Idle]
  /\ mainpc = "start"
  /\ p = <<>>
  /\ ExitCode = 0
  /\ proc = "running"
  /\ exitStatus = 0
  /\ rendered = <<>>
  /\ emitted = <<>>
  /\ handed = <<>>
  /\ reported = <<>>
  /\ taken = <<>>

\* the pipeline: every configuration, on inputs of 0..MaxLines lines that
\* alternate between a line with a separator and one without
PipeLine(i) == IF i % 2 = 1 THEN <<"b", ",", "c">> ELSE <<"a">>

Init ==
  /\ args \in {a \in Params : a.Command \in PipePatterns}
  /\ \E n \in 0..MaxLines : src = [i \in 1..n |-> PipeLine(i)]
  /\ stdin = Input(src, <<"NL">>, TRUE)
  /\ rdr = stdin
  /\ InitRest

\* ls with a carriage return at the end of its last line
WithCR(ls) == [ls EXCEPT ![Len(ls)] = @ \o <<"CR">>]

\* the generator on its own (dry-run, so that no send waits): every input of
\* up to MaxGenLines lines, with either terminator, the last line terminated or
\* not (an empty last line has to be terminated to be a line at all); an
\* unterminated last line may end in a carriage return
InitGen ==
  /\ args \in {a \in Params : a.DryRun /\ a.Procs = 1 /\ ~a.ContinueOnError}
  /\ \E ls \in SeqsUpTo(LineSet, MaxGenLines), term \in Terminators,
        terminated \in BOOLEAN :
       \E cr \in (IF ls # <<>> /\ ~terminated THEN BOOLEAN ELSE {FALSE}) :
         /\ src = IF cr THEN WithCR(ls) ELSE ls
         /\ IF src # <<>> /\ ~terminated THEN src[Len(src)] # <<>> ELSE TRUE
         /\ stdin = Input(src, term, terminated)
  /\ rdr = stdin
  /\ InitRest

Next ==
  \/ mainStart
  \/ genCommandsLoop
  \/ genCommandsAfterSend
  \/ genCommandsClose
  \/ \E w \in Workers : RunnerAccept(w)
  \/ \E w \in Workers, s \in Statuses : RunnerFinish(w, s)
  \/ \E w \in Workers : RunnerStop(w)
  \/ \E w \in Workers : runTake(w)
  \/ runBody
  \/ runEnd
  \/ runReturn

Spec == Init /\ [][Next]_vars

NextGen ==
  \/ mainStart
  \/ genCommandsLoop
  \/ \E w \in Workers : RunnerStop(w)
  \/ runEnd
  \/ runReturn

SpecGen == InitGen /\ [][NextGen]_vars

\* ------------------------------------------------------------- claims
RECURSIVE MaxOf(_)
MaxOf(ss) == IF ss = <<>> THEN 0
             ELSE LET m == MaxOf(Tail(ss)) IN IF Head(ss) > m THEN Head(ss) ELSE m

\* the results run has taken, and those whose loop body has run
Observed == [i \in 1..Len(taken) |-> taken[i].status]
Processed == IF mainpc = "got" THEN SubSeq(Observed, 1, Len(Observed) - 1) ELSE Observed
FailureReported == \E i \in 1..Len(reported) : reported[i] # 0
Ended == proc \in {"exited", "panicked"}

\* C1 as stated: with continue-on-error disabled, once a command has reported a
\* non-zero exit status, no further command is received and started by the engine.
C1_NoStartAfterFailureReported ==
  [][(~args.ContinueOnError /\ FailureReported) => handed' = handed]_vars

\* C1 amended: with continue-on-error disabled, once run has processed a result
\* with a non-zero exit status (and so closed the cancellation signal), no
\* further command is received and started by the engine.
C1_NoStartAfterFailureProcessed ==
  [][(~args.ContinueOnError /\ ExitCode # 0) => handed' = handed]_vars

\* a command is waiting on ch after the failure has been processed
C1_Witness ==
  /\ ~args.ContinueOnError
  /\ ExitCode # 0
  /\ cancel = "closed"
  /\ ch # <<>>
  /\ proc = "running"

\* C2: the cancellation signal is closed at most once in every execution of
\* run, and closing it is never an error (no panic).
C2_ClosedAtMostOnce == closes <= 1 /\ proc # "panicked"

\* C3: when the run ends, the process's exit status is the highest exit status
\* among the results run observed, or 0.
C3_FinalStatusIsMax == Ended => exitStatus = MaxOf(Observed)

\* C4: outside the body of the loop, the output written through run's writer is
\* the concatenation of the outputs of every result taken, whatever its status.
C4_EveryResultCopied ==
  (~args.DryRun /\ mainpc # "got") =>
    stdout \o stdoutw = Flatten([i \in 1..Len(taken) |-> taken[i].out])

RenderedCmds == [i \in 1..Len(rendered) |-> rendered[i].cmd]

\* every rendered command handed exactly once, in order; none missing once run
\* has returned and the process exited; cancel open until the result stream
\* has ended
HandedExactlyOnce ==
  /\ Len(handed) <= Len(rendered)
  /\ handed = SubSeq(RenderedCmds, 1, Len(handed))
  /\ proc = "exited" => (genpc = "closed" /\ handed = RenderedCmds)
  /\ cancel = "closed" => StreamClosed

\* C5 as stated: with continue-on-error enabled, every rendered command is
\* handed to the engine exactly once and cancel stays open until the result
\* stream has ended.
C5_AllHandedWhenContinuing == args.ContinueOnError => HandedExactlyOnce

\* C5 amended: the same, with continue-on-error enabled and dry-run disabled.
C5_AllHandedWhenContinuingAndRunning ==
  (args.ContinueOnError /\ ~args.DryRun) => HandedExactlyOnce

\* a run that went on after a failure and handed every command
C5_Witness ==
  /\ args.ContinueOnError
  /\ ~args.DryRun
  /\ proc = "exited"
  /\ Len(handed) = 3
  /\ Len(reported) = 3
  /\ reported[1] # 0

\* C6: the aggregated exit status starts at 0, never decreases, and after each
\* result is processed equals the maximum of 0 and the statuses processed so far.
C6_ExitCodeIsRunningMax ==
  /\ ExitCode = 0
  /\ [](ExitCode = MaxOf(Processed))
  /\ [][ExitCode' >= ExitCode]_vars

\* a higher status was processed before a lower one
C6_Witness ==
  /\ Len(Processed) >= 2
  /\ Processed[1] = 2
  /\ Processed[2] = 1
  /\ ExitCode = 2

\* ---------------------------------------------- claims on the generator
\* the command the pattern stands for, read off the pattern in one pass:
\* {} is whole, {N} is toks[N], any other character is itself
RECURSIVE Subst(_, _, _)
Subst(pat, whole, toks) ==
  IF pat = <<>> THEN <<>>
  ELSE IF Len(pat) >= 2 /\ pat[1] = "{" /\ pat[2] = "}"
       THEN whole \o Subst(SubSeq(pat, 3, Len(pat)), whole, toks)
  ELSE LET d == CHOOSE j \in 2..(Len(pat) + 1) :
                  /\ \A i \in 2..(j - 1) : pat[i] \in Digits
                  /\ (j = Len(pat) + 1 \/ pat[j] \notin Digits)
           num[i \in 1..Len(pat)] ==
             IF i = 1 THEN 0 ELSE num[i - 1] * 10 + DigitVal(pat[i])
       IN IF pat[1] = "{" /\ d > 2 /\ d <= Len(pat) /\ pat[d] = "}"
          THEN toks[num[d - 1] + 1] \o Subst(SubSeq(pat, d + 1, Len(pat)), whole, toks)
          ELSE <<pat[1]>> \o Subst(Tail(pat), whole, toks)

Min(a, b) == IF a < b THEN a ELSE b
CeilDiv(n, k) == (n + k - 1) \div k

\* the lines of batch i in count mode with batch size k; with k < 1 the
\* buffer never holds k lines and the only batch is the whole input
Batch(i, k) ==
  IF k >= 1 THEN SubSeq(src, (i - 1) * k + 1, Min(i * k, Len(src))) ELSE src

CountMode == args.Sep = <<>>

\* C7: in count mode with batch size k >= 1, every rendered batch but the last
\* of the ceil(lineCount / k) holds k lines, the last one holds lineCount mod k
\* lines when that is non-zero, else k, and once the generator has closed its
\* stream exactly ceil(lineCount / k) commands have been rendered.
C7_BatchCounts ==
  (CountMode /\ args.Nlines >= 1) =>
    LET k == args.Nlines
        n == Len(src)
        m == Len(rendered)
    IN /\ m <= CeilDiv(n, k)
       /\ \A i \in 1..m :
            Len(rendered[i].Lines) =
              IF i < CeilDiv(n, k) THEN k ELSE (IF n % k # 0 THEN n % k ELSE k)
       /\ genpc = "closed" => m = CeilDiv(n, k)

\* three lines in batches of two: a full batch and a trailing batch of one
C7_Witness ==
  /\ CountMode
  /\ args.Nlines = 2
  /\ Len(src) = 3
  /\ genpc = "closed"
  /\ Len(rendered) = 2
  /\ Len(rendered[2].Lines) = 1

\* the renderings of line 96: one line each
LineRenders == SelectSeq(rendered, LAMBDA r : Len(r.Lines) = 1)

\* C8: in separator mode the command rendered for the i-th line L is the
\* pattern with {N} replaced by element N of the regex split of L and {}
\* replaced by L itself.
C8_SeparatorTokens ==
  ~CountMode =>
    /\ Len(LineRenders) <= Len(src)
    /\ \A i \in 1..Len(LineRenders) :
         LET r == LineRenders[i]
             L == src[i]
         IN /\ r.Xs = Split(L, args.Sep)
            /\ r.out = Subst(args.Command, L, Split(L, args.Sep))
            /\ r.cmd = r.out
    /\ genpc = "closed" => Len(LineRenders) = Len(src)

\* "b,c" split at "," and rendered through {1}{}
C8_Witness ==
  /\ ~CountMode
  /\ args.Command = <<"{", "1", "}", "{", "}">>
  /\ Len(rendered) >= 1
  /\ rendered[1].Lines = << <<"b", ",", "c">> >>
  /\ rendered[1].Xs = << <<"b">>, <<"c">> >>
  /\ rendered[1].cmd = <<"c", "b", ",", "c">>

\* C9: in count mode the i-th rendered command is the pattern with {} replaced
\* by the first line of batch i and {N} by line N of batch i, every other
\* character of the pattern as it is.
C9_CountModeOwnBatch ==
  CountMode =>
    \A i \in 1..Len(rendered) :
      LET b == Batch(i, args.Nlines)
      IN /\ rendered[i].Lines = b
         /\ rendered[i].Xs = b
         /\ rendered[i].out = Subst(args.Command, b[1], b)
         /\ rendered[i].cmd = rendered[i].out

\* a second batch of two lines rendered through {1}{} from its own lines
C9_Witness ==
  /\ CountMode
  /\ args.Nlines = 2
  /\ args.Command = <<"{", "1", "}", "{", "}">>
  /\ src = << <<"a">>, <<"a">>, <<"b", ",", "c">>, <<"a">> >>
  /\ Len(rendered) = 2
  /\ rendered[2].cmd = <<"a", "b", ",", "c">>

\* C10: in dry-run mode no command is handed to the engine or run, and standard
\* output is the rendered commands, one per line, in generation order.
C10_DryRunPrintsOnly ==
  args.DryRun =>
    /\ handed = <<>>
    /\ ch = <<>>
    /\ reported = <<>>
    /\ taken = <<>>
    /\ stdout = Flatten([i \in 1..Len(rendered) |-> rendered[i].cmd \o <<"NL">>])

\* a finished dry run that printed three commands
C10_Witness ==
  /\ args.DryRun
  /\ proc = "exited"
  /\ Len(rendered) = 3
  /\ stdout = <<"b", ",", "c", "NL", "a", "NL", "b", ",", "c", "NL">>

\* ------------------------------------------- claims on the hand-off
\* the commands the generator has sent on ch: those received, then the one
\* a waiting send offers
Sent == handed \o ch

\* the input lines of every rendering, in rendering order
RenderedLines == Flatten([i \in 1..Len(rendered) |-> rendered[i].Lines])

\* C11: commands are sent on the hand-off channel in input order: the input
\* lines of the rendered commands, taken in rendering order, are the input's
\* lines in their order, and the commands sent are the rendered commands in
\* rendering order.
C11_SentInInputOrder ==
  /\ Len(RenderedLines) <= Len(src)
  /\ RenderedLines = SubSeq(src, 1, Len(RenderedLines))
  /\ ~args.DryRun =>
       /\ Len(Sent) <= Len(rendered)
       /\ Sent = SubSeq(RenderedCmds, 1, Len(Sent))

\* three lines, one command each, received in the order of the lines
C11_Witness ==
  /\ ~args.DryRun
  /\ args.Command = <<"{", "}">>
  /\ src = << <<"b", ",", "c">>, <<"a">>, <<"b", ",", "c">> >>
  /\ handed = << <<"b", ",", "c">>, <<"a">>, <<"b", ",", "c">> >>

\* --------------------------------------------- claims on the failures
\* the batch the generator renders next cannot be rendered: in count mode the
\* batch after those rendered, in separator mode the next line or (line 107
\* with -n 0) the empty batch
NextBatchFails ==
  IF CountMode
  THEN LET b == Batch(Len(rendered) + 1, args.Nlines) IN ~CanExecute(Tmpl, b, b)
  ELSE LET j == Len(LineRenders)
       IN \/ /\ j < Len(src)
             /\ ~CanExecute(Tmpl, <<src[j + 1]>>, Split(src[j + 1], args.Sep))
          \/ /\ args.Nlines = 0
             /\ ~CanExecute(Tmpl, <<>>, <<>>)

\* C12: a batch whose token list is too short for a {N} of the pattern (a
\* trailing partial batch included) is never rendered into a command; the
\* process ends as fatal at that batch, with no command on offer, and nothing
\* is rendered, handed over or printed afterwards; a generator that closes its
\* stream has rendered every input line.
C12_FatalRender ==
  /\ [](\A i \in 1..Len(rendered) :
          CanExecute(Tmpl, rendered[i].Lines, rendered[i].Xs))
  /\ [](proc = "fatal" =>
          /\ exitStatus = FatalStatus
          /\ NextBatchFails
          /\ ch = <<>>
          /\ genpc # "closed")
  /\ [](genpc = "closed" => RenderedLines = src)
  /\ [][proc = "fatal" => UNCHANGED <<rendered, handed, ch, stdout, stderr>>]_vars

\* {1} against the trailing batch of one line, after a full batch of two went
\* to the engine
C12_Witness ==
  /\ proc = "fatal"
  /\ CountMode
  /\ args.Nlines = 2
  /\ args.Command = <<"{", "1", "}", "{", "}">>
  /\ Len(src) = 3
  /\ ~args.DryRun
  /\ handed = << <<"a", "b", ",", "c">> >>
  /\ Len(rendered) = 1

\* the configuration names a separator and a batch size above 1
SepWithBatch == args.Sep # <<>> /\ args.Nlines > 1

\* C13: with a separator and a batch size above 1 the only step of the run is
\* the failed validation: the process ends there with the usage status, the
\* generator is never launched, the input is never read, and nothing is
\* rendered, handed over or written to standard output.
C13_ValidationFirst ==
  /\ [](SepWithBatch =>
          /\ proc \in {"running", "usage"}
          /\ proc = "usage" => exitStatus = UsageStatus
          /\ mainpc = "start"
          /\ genpc = "idle"
          /\ lines = <<>>
          /\ rendered = <<>>
          /\ ch = <<>>
          /\ handed = <<>>
          /\ taken = <<>>
          /\ stdout = <<>>
          /\ stdoutw = <<>>)
  /\ [][SepWithBatch => (rdr' = rdr /\ proc' = "usage")]_vars

\* a separator with -n 2 on a non-empty input, rejected
C13_Witness ==
  /\ args.Sep = <<",">>
  /\ args.Nlines = 2
  /\ src # <<>>
  /\ proc = "usage"

\* ------------------------------------------- claims on handleCommand
\* the commands handleCommand wrote or sent to one destination, in order
EmittedTo(to) ==
  LET es == SelectSeq(emitted, LAMBDA e : e.to = to)
  IN [i \in 1..Len(es) |-> es[i].cmd]

\* C14: in verbose mode standard error holds one "command: " line per rendered
\* command, in rendering order, and every send on ch and every dry-run print
\* comes right after the diagnostic write of the same command.
C14_VerboseFirst ==
  args.Verbose =>
    /\ EmittedTo("stderr") = RenderedCmds
    /\ stderr = Flatten([i \in 1..Len(rendered) |->
                           <<"command: ">> \o rendered[i].cmd \o <<"NL">>])
    /\ \A k \in 1..Len(emitted) :
         emitted[k].to # "stderr" =>
           /\ k > 1
           /\ emitted[k - 1] = [to |-> "stderr", cmd |-> emitted[k].cmd]
    /\ IF args.DryRun
       THEN /\ EmittedTo("ch") = <<>>
            /\ stdout = Flatten([i \in 1..Len(EmittedTo("stdout")) |->
                                   EmittedTo("stdout")[i] \o <<"NL">>])
       ELSE /\ EmittedTo("stdout") = <<>>
            /\ Sent = SubSeq(EmittedTo("ch"), 1, Len(Sent))
            /\ Len(EmittedTo("ch")) <= Len(Sent) + 1

\* two commands received by the engine, both on standard error before
C14_Witness ==
  /\ args.Verbose
  /\ ~args.DryRun
  /\ Len(handed) = 2
  /\ stderr = <<"command: ", "b", ",", "c", "NL", "command: ", "a", "NL">>

\* ------------------------------------------- claims on the stream's end
\* C15: in every run the generator's command stream is closed by the time the
\* process has ended, a run that stopped after a failure included, and it is
\* closed only once the input is exhausted and the last batch has been
\* rendered and received.
C15_StreamClosedInEveryRun ==
  /\ Ended => genpc = "closed"
  /\ genpc = "closed" =>
       /\ rdr = <<>>
       /\ lines = <<>> \/ (CountMode /\ Len(lines) < args.Nlines) \/ args.Nlines = 0
       /\ RenderedLines = src
       /\ ch = <<>>

\* ------------------------------------------ claims on separator mode
\* C16: with a separator and a batch size of 0 or 1, the renderings are one per
\* input line, in order, each from its line alone (Lines the line, Xs its
\* tokens, the command nothing but that rendering); the run is fatal only at a
\* line whose tokens are too few, and a generator that has closed its stream
\* has rendered exactly as many commands as there are lines.
C16_OneCommandPerLine ==
  (~CountMode /\ args.Nlines <= 1) =>
    /\ Len(rendered) <= Len(src)
    /\ \A i \in 1..Len(rendered) :
         /\ i <= Len(src)
         /\ rendered[i].Lines = <<src[i]>>
         /\ rendered[i].Xs = Split(src[i], args.Sep)
         /\ rendered[i].cmd = Subst(args.Command, src[i], Split(src[i], args.Sep))
    /\ proc = "fatal" =>
         /\ Len(rendered) < Len(src)
         /\ LET L == src[Len(rendered) + 1]
            IN ~CanExecute(Tmpl, <<L>>, Split(L, args.Sep))
    /\ genpc = "closed" => Len(rendered) = Len(src)

\* ------------------------------------- claims on the unterminated line
\* the generator run from its start on the input x until it closes its stream
\* or dies (in dry-run, where no send waits)
RECURSIVE RunToEnd(_)
RunToEnd(g) ==
  IF g.proc # "running" \/ g.genpc = "closed" THEN g ELSE RunToEnd(Iteration(g))

Commands(x) ==
  LET g == RunToEnd([rdr |-> x, lines |-> <<>>, buf |-> <<>>, genpc |-> "read",
                     ch |-> <<>>, stdout |-> <<>>, stderr |-> <<>>,
                     rendered |-> <<>>, emitted |-> <<>>, proc |-> "running",
                     exitStatus |-> 0])
  IN [cmds |-> [i \in 1..Len(g.rendered) |-> g.rendered[i].cmd],
      fatal |-> g.proc = "fatal"]

\* the input does not end in a newline
Unterminated == stdin # <<>> /\ stdin[Len(stdin)] # "NL"

\* the generator of this run has closed its stream or died
GenEnded == genpc = "closed" \/ proc = "fatal"

\* the commands of this run are those of the input with a newline added
SameAsWithNewline ==
  LET twin == Commands(stdin \o <<"NL">>)
  IN /\ RenderedCmds = twin.cmds
     /\ (proc = "fatal") = twin.fatal

Sends == {"send97", "send110", "send115"}

\* C18: outside dry-run every rendered command has been received by the engine
\* except at most one, the command on offer on ch; while a command is on offer
\* the generator is inside its send, and it reads no input and renders nothing
\* until the engine has received that command.
C18_Backpressure ==
  /\ [](~args.DryRun =>
          /\ Len(ch) <= 1
          /\ RenderedCmds = handed \o ch
          /\ ch # <<>> <=> genpc \in Sends)
  /\ [][ch # <<>> => (rdr' = rdr /\ lines' = lines /\ rendered' = rendered)]_vars

\* the second command on offer with input left to read, the first one received
C18_Witness ==
  /\ ~args.DryRun
  /\ Len(handed) = 1
  /\ ch # <<>>
  /\ genpc \in Sends
  /\ rdr # <<>>
  /\ proc = "running"
  /\ cancel = "open"

\* ---------------------------------------------- claims on the output
\* the results whose turn of the loop is over, and among them those that
\* reached io.Copy (a result that stops the loop does not: line 145)
Done == IF mainpc = "got" THEN SubSeq(taken, 1, Len(taken) - 1) ELSE taken
Copied == SelectSeq(Done, LAMBDA r : r.status = 0 \/ args.ContinueOnError)

\* C19: what run has written is the whole outputs of the results it copied, one
\* after the other in the order run took them from the engine, and a result is
\* taken only when no other result is in the loop body.
C19_WholeOutputsInOrder ==
  /\ [](~args.DryRun =>
          stdout \o stdoutw = Flatten([i \in 1..Len(Copied) |-> Copied[i].out]))
  /\ [][taken' # taken =>
          /\ mainpc = "loop"
          /\ p = <<>>
          /\ taken' = Append(taken, p'[1])]_vars

\* two workers: the second command's result was delivered first, and the
\* output has the two outputs in that order
C19_Witness ==
  /\ ~args.DryRun
  /\ args.Command = <<"{", "}">>
  /\ handed = << <<"b", ",", "c">>, <<"a">> >>
  /\ Len(taken) = 2
  /\ taken[1].cmd = <<"a">>
  /\ proc = "exited"
  /\ stdout = <<"a", "NL", "b", ",", "c", "NL">>
====
